---- MODULE Spec2Model ----
(***************************************************************************)
(* Personal-finance ledger (guilhermebr/finance): accounts, categories,    *)
(* transactions and the cached balances table.                             *)
(*                                                                         *)
(* The database is PostgreSQL in its default READ COMMITTED mode and every *)
(* repository call is one autocommit statement.  A statement that writes a *)
(* transactions row runs the row trigger in the same database transaction. *)
(* update_account_balance is one INSERT .. SELECT .. ON CONFLICT DO UPDATE *)
(* statement: its SELECT is evaluated on the snapshot taken when it starts *)
(* (committed rows plus the rows written by the same database             *)
(* transaction) and the conflicting balances row is overwritten afterwards *)
(* with the values computed from that snapshot.  The model keeps these two *)
(* moments apart (the ...Persist / RefreshRead steps read, the ...Commit / *)
(* RefreshWrite steps write).  A use case that changes transactions is the *)
(* steps ...Begin (validation and lookups), ...Persist, ...Commit and then *)
(* one RefreshRead / RefreshWrite pair per account it refreshes.           *)
(*                                                                         *)
(* Spec runs one request at a time over the whole API; ConcurrentSpec runs *)
(* the transaction use cases of two requests that overlap.                 *)
(***************************************************************************)
EXTENDS Integers, Sequences, FiniteSets, TLC

\* ------------------------------------------------------------------ bounds
\* Account ids handed out by the accounts table (ids are never reused).
MaxAccounts == 2
\* Transaction ids handed out by the transactions table.
MaxTransactions == 2
\* Category ids handed out by the categories table, the ones of the default
\* categories included.
MaxCategories == 4
\* Model width of the signed column type BIGINT / Go int64 (64 in the code).
WordBits == 8

\* Request handlers (one goroutine per request): w1 and w2 handle requests
\* at the same time; w3 belongs to the process started after a crash.
Workers == {"w1", "w2", "w3"}

\* The empty string used as an ID.
NoId == 0

AccountIds == 1 .. MaxAccounts
TransactionIds == 1 .. MaxTransactions
CategoryIds == 1 .. MaxCategories
\* The ids of the categories the schema inserts.
DefaultCategoryIds == {1, 2}

\* ------------------------------------------------------------ entity enums
TransactionStatusPending == "pending"
TransactionStatusCleared == "cleared"
TransactionStatusCancelled == "cancelled"
CategoryTypeIncome == "income"
CategoryTypeExpense == "expense"
AccountTypeChecking == "checking"
AccountTypeSavings == "savings"
AccountTypeCredit == "credit"
AccountTypeInvestment == "investment"
AccountTypeCash == "cash"

\* Asset symbols the monetary package recognises (FindAssetByName), a subset
\* of the ones the accounts.asset CHECK constraint admits.
KnownAssets == {"BRL", "USD"}

\* ------------------------------------------------------------- input sets
AccountIdInputs == {NoId} \cup AccountIds
CategoryIdInputs == {NoId} \cup CategoryIds
TransactionIdInputs == {NoId} \cup TransactionIds
AccountAssetInputs == {"", "BRL", "USD", "XXX"}

VARIABLES
    accounts,           \* accounts table: id -> [name, type, asset]
    categories,         \* categories table: id -> [name, type]
    transactions,       \* transactions table (committed rows): id -> row
    balances,           \* balances table: account_id -> [current, pending, available]
    nextAccountId,      \* next id the accounts table hands out
    nextCategoryId,     \* next id the categories table hands out
    nextTransactionId,  \* next id the transactions table hands out
    pc,                 \* position of each request handler
    local,              \* the handler's local variables and its open statement
    res                 \* the outcome of a use-case call, at the step that decides it

vars == <<accounts, categories, transactions, balances, nextAccountId,
          nextCategoryId, nextTransactionId, pc, local, res>>

\* ---------------------------------------------------------------- helpers
Abs(x) == IF x < 0 THEN -x ELSE x

Sign(x) == IF x < 0 THEN -1 ELSE IF x > 0 THEN 1 ELSE 0

RECURSIVE Pow2(_)
Pow2(n) == IF n = 0 THEN 1 ELSE 2 * Pow2(n - 1)

\* big.Int.Int64(): the low WordBits bits, read as a two's complement number.
Int64(x) == ((x + Pow2(WordBits - 1)) % Pow2(WordBits)) - Pow2(WordBits - 1)

\* strings.TrimSpace on the name and description inputs.
TrimSpace(s) == IF s = " " THEN "" ELSE s

\* A time.Time value: a calendar day and a time of day; this one is midnight
\* of the day, as time.Parse("2006-01-02", ..) and a DATE column give it.
DateTime(day) == [day |-> day, tod |-> "00:00"]

\* The zero time.Time: January 1 of year 1, midnight.
ZeroTime == DateTime("0001-01-01")

IsZero(t) == t = ZeroTime

\* The days time.Now() falls on.
Clock == {"2024-03-10", "2024-03-11"}

\* time.Now() on the given day.
Now(day) == [day |-> day, tod |-> "09:30"]

\* pgtype.Date{Time: t} written to a DATE column: the calendar day of t.
PgDate(t) == t.day

NoRow == [account_id |-> NoId, category_id |-> NoId, amount |-> 0,
          description |-> "", date |-> ZeroTime, status |-> ""]

ZeroSums == [current |-> 0, pending |-> 0, available |-> 0]

NoRet == [id |-> NoId, account_id |-> NoId, category_id |-> NoId,
          amount |-> 0, asset |-> "", date |-> ZeroTime, status |-> ""]

\* The status and the date of the entity a use case is called with.
NoAsked == [status |-> "", date |-> ZeroTime]

NoLocal == [op |-> "none", id |-> NoId, tx |-> NoRow, asset |-> "",
            supplied |-> 0, catType |-> "", existing |-> NoId,
            uw |-> "none", old |-> NoId, sums |-> ZeroSums,
            todo |-> <<>>, k |-> 0, asked |-> NoAsked]

NoRes == [op |-> "none", err |-> "", ret |-> NoRet, supplied |-> 0,
          asked |-> NoAsked]

RECURSIVE SumAmounts(_, _)
SumAmounts(tbl, ids) ==
    IF ids = {} THEN 0
    ELSE LET i == CHOOSE x \in ids : TRUE
         IN tbl[i].amount + SumAmounts(tbl, ids \ {i})


\* ------------------------------------------------- storage layer (SQL side)
Empty == [x \in {} |-> 0]

\* The transactions table as the open statement of worker p sees it: the
\* committed rows and the row its own database transaction has written.
View(p) ==
    CASE local[p].uw \in {"ins", "upd"} ->
           [i \in DOMAIN transactions \cup {local[p].id} |->
               IF i = local[p].id THEN local[p].tx ELSE transactions[i]]
      [] local[p].uw = "del" ->
           [i \in DOMAIN transactions \ {local[p].id} |-> transactions[i]]
      [] OTHER -> transactions

\* A variant of SelectAccountSums whose available also adds the cancelled
\* rows; AvailableIsCurrentPlusPending does not survive it.
SumsCountingCancelled(tbl, a) ==
    LET rows == {i \in DOMAIN tbl : tbl[i].account_id = a}
    IN [current |-> SumAmounts(tbl,
            {i \in rows : tbl[i].status = TransactionStatusCleared}),
        pending |-> SumAmounts(tbl,
            {i \in rows : tbl[i].status = TransactionStatusPending}),
        available |-> SumAmounts(tbl, rows)]

\* update_account_balance, the SELECT: the three aggregates over the rows of
\* account a (COALESCE(SUM(CASE WHEN status ... THEN amount ELSE 0 END), 0)).
SelectAccountSums(tbl, a) ==
    LET rows == {i \in DOMAIN tbl : tbl[i].account_id = a}
    IN [current |-> SumAmounts(tbl,
            {i \in rows : tbl[i].status = TransactionStatusCleared}),
        pending |-> SumAmounts(tbl,
            {i \in rows : tbl[i].status = TransactionStatusPending}),
        available |-> SumAmounts(tbl,
            {i \in rows : tbl[i].status \in
                {TransactionStatusCleared, TransactionStatusPending}})]

\* The account types GetBalanceSummary counts as assets.
AssetAccountTypes == {AccountTypeChecking, AccountTypeSavings,
                      AccountTypeInvestment, AccountTypeCash}

RECURSIVE SumOver(_, _)
SumOver(f, ids) ==
    IF ids = {} THEN 0
    ELSE LET i == CHOOSE x \in ids : TRUE
         IN f[i] + SumOver(f, ids \ {i})

\* A variant of GetBalanceSummaryQuery whose net worth adds the credit
\* balances instead of subtracting them; NetWorthIsAssetsMinusLiabilities
\* does not survive it.
SummaryAddingLiabilities(accts, bal) ==
    LET joined == DOMAIN bal \cap DOMAIN accts
        isAsset(a) == accts[a].type \in AssetAccountTypes
    IN [total_assets |-> SumOver(
            [a \in joined |-> IF isAsset(a) THEN bal[a].current ELSE 0], joined),
        total_liabilities |-> SumOver(
            [a \in joined |-> IF accts[a].type = AccountTypeCredit
                              THEN Abs(bal[a].current) ELSE 0], joined),
        net_worth |-> SumOver(
            [a \in joined |-> IF isAsset(a) THEN bal[a].current
                              ELSE Abs(bal[a].current)], joined)]

\* A variant of GetBalanceSummaryQuery whose liabilities are summed without
\* ABS; SummaryBuckets does not survive it.
SummarySignedLiabilities(accts, bal) ==
    LET joined == DOMAIN bal \cap DOMAIN accts
        isAsset(a) == accts[a].type \in AssetAccountTypes
    IN [total_assets |-> SumOver(
            [a \in joined |-> IF isAsset(a) THEN bal[a].current ELSE 0], joined),
        total_liabilities |-> SumOver(
            [a \in joined |-> IF accts[a].type = AccountTypeCredit
                              THEN bal[a].current ELSE 0], joined),
        net_worth |-> SumOver(
            [a \in joined |-> IF isAsset(a) THEN bal[a].current
                              ELSE -Abs(bal[a].current)], joined)]

\* The GetBalanceSummary query: three sums over balances JOIN accounts.
GetBalanceSummaryQuery(accts, bal) ==
    LET joined == DOMAIN bal \cap DOMAIN accts
        isAsset(a) == accts[a].type \in AssetAccountTypes
    IN [total_assets |-> SumOver(
            [a \in joined |-> IF isAsset(a) THEN bal[a].current ELSE 0], joined),
        total_liabilities |-> SumOver(
            [a \in joined |-> IF accts[a].type = AccountTypeCredit
                              THEN Abs(bal[a].current) ELSE 0], joined),
        net_worth |-> SumOver(
            [a \in joined |-> IF isAsset(a) THEN bal[a].current
                              ELSE -Abs(bal[a].current)], joined)]

\* value.(int64) with the ok result dropped: the value when the driver hands
\* the column over as an int64, the zero value otherwise.
AssertInt64(value, isInt64) == IF isInt64 THEN value ELSE 0

\* balances.account_id REFERENCES accounts(id): the row may be written only
\* for an account that exists.
BalanceFkOk(accts, a) == a \in DOMAIN accts

\* A variant of UpsertBalance that adds the computed sums to a row that
\* exists; DoubleRefreshChangesNothing does not survive it.
AccumulateBalance(bal, accts, a, sums) ==
    IF BalanceFkOk(accts, a)
    THEN [x \in DOMAIN bal \cup {a} |->
            IF x # a THEN bal[x]
            ELSE IF a \in DOMAIN bal
                 THEN [current |-> bal[a].current + sums.current,
                       pending |-> bal[a].pending + sums.pending,
                       available |-> bal[a].available + sums.available]
                 ELSE sums]
    ELSE bal

\* A variant of UpsertBalance that keeps a row that exists (ON CONFLICT DO
\* NOTHING); HealsAfterCrash does not survive it.
InsertBalanceOnce(bal, accts, a, sums) ==
    IF BalanceFkOk(accts, a) /\ a \notin DOMAIN bal
    THEN [x \in DOMAIN bal \cup {a} |-> IF x = a THEN sums ELSE bal[x]]
    ELSE bal

\* A variant of UpsertBalance whose UPDATE has no WHERE clause: every row
\* takes the computed sums; OtherBalancesUntouched does not survive it.
UpsertEveryRow(bal, accts, a, sums) ==
    IF BalanceFkOk(accts, a)
    THEN [x \in DOMAIN bal \cup {a} |-> sums]
    ELSE bal

\* update_account_balance, the INSERT .. ON CONFLICT (account_id) DO UPDATE:
\* the row of account a becomes the computed sums; a foreign-key violation
\* aborts the statement and leaves the table as it was.
UpsertBalance(bal, accts, a, sums) ==
    IF BalanceFkOk(accts, a)
    THEN [x \in DOMAIN bal \cup {a} |-> IF x = a THEN sums ELSE bal[x]]
    ELSE bal

\* transaction_balance_trigger, UPDATE branch: NEW.account_id is refreshed,
\* then OLD.account_id when it differs.
TriggerOnUpdate(bal, accts, tbl, new, old, newSums) ==
    LET b1 == UpsertBalance(bal, accts, new, newSums)
    IN IF old # new
       THEN UpsertBalance(b1, accts, old, SelectAccountSums(tbl, old))
       ELSE b1

\* Another worker's open statement holds the row lock of transaction id.
RowLocked(p, id) ==
    \E q \in Workers \ {p} : local[q].uw # "none" /\ local[q].id = id

\* An open statement has written (or is replacing) a row of account a: it
\* holds the key-share lock on the accounts row or the lock on a row the
\* cascade has to delete.
AccountInUse(a) ==
    \E q \in Workers :
        /\ local[q].uw # "none"
        /\ \/ local[q].tx.account_id = a
           \/ local[q].old = a

\* The same for a categories row.
CategoryInUse(c) ==
    \E q \in Workers :
        /\ local[q].uw # "none"
        /\ \/ local[q].tx.category_id = c
           \/ /\ local[q].id \in DOMAIN transactions
              /\ transactions[local[q].id].category_id = c

\* DELETE FROM accounts: the cascade deletes the account's transactions rows
\* and the row trigger runs update_account_balance(OLD.account_id) once per
\* deleted row, while the accounts row is already gone.  The first call
\* updates the existing balances row without a key change, which needs no
\* foreign-key check.  A call that has to insert the row, or that updates a
\* row version written by this same statement, is checked against accounts
\* and fails, which aborts the whole DELETE.
RECURSIVE CascadeTriggerOk(_, _, _)
CascadeTriggerOk(n, hasRow, writtenHere) ==
    IF n = 0 THEN TRUE
    ELSE IF hasRow /\ ~writtenHere
         THEN CascadeTriggerOk(n - 1, TRUE, TRUE)
         ELSE FALSE

DeleteAccountRows(a) ==
    {i \in DOMAIN transactions : transactions[i].account_id = a}

\* ----------------------------------------------------- use-case functions
\* The use cases that write transactions rows.
TransactionOps == {"createTransaction", "updateTransaction",
                   "deleteTransaction"}

ValidStatuses == {TransactionStatusPending, TransactionStatusCleared,
                  TransactionStatusCancelled}

\* A variant of StatusCheck for a schema without the constraint;
\* StatusesValid does not survive it.
AnyStatus(status) == TRUE

\* The CHECK constraint of transactions.status.
StatusCheck(status) == status \in ValidStatuses

\* A variant of validateTransaction without the amount rule;
\* AmountsNonZero does not survive it.
validateWithoutAmount(t) ==
    IF t.account_id = NoId THEN "account ID cannot be empty"
    ELSE IF t.category_id = NoId THEN "category ID cannot be empty"
    ELSE IF TrimSpace(t.description) = ""
         THEN "transaction description cannot be empty"
    ELSE IF t.status # "" /\ t.status \notin ValidStatuses
         THEN "invalid transaction status"
    ELSE ""

validateTransaction(t) ==
    IF t.account_id = NoId THEN "account ID cannot be empty"
    ELSE IF t.category_id = NoId THEN "category ID cannot be empty"
    ELSE IF Sign(t.amount) = 0 THEN "transaction amount cannot be zero"
    ELSE IF TrimSpace(t.description) = ""
         THEN "transaction description cannot be empty"
    ELSE IF t.status # "" /\ t.status \notin ValidStatuses
         THEN "invalid transaction status"
    ELSE ""

\* A variant of adjustTransactionAmount that leaves the sign alone;
\* UpdateSignCorrected does not survive it.
keepTransactionAmount(amount, type) == amount

adjustTransactionAmount(amount, type) ==
    LET a1 == IF type = CategoryTypeExpense /\ Sign(amount) > 0
              THEN -amount ELSE amount
    IN IF type = CategoryTypeIncome /\ Sign(a1) < 0 THEN -a1 ELSE a1

\* The amount keeps its minor units and takes the asset of the account
\* (monetary.NewMonetary accepts every asset an account can have).
convertTransactionToAccountAsset(asset, accountAsset) ==
    IF asset = accountAsset THEN asset ELSE accountAsset

\* A variant of RepoAsset that always takes the fallback;
\* TransactionCarriesAccountAsset does not survive it.
AlwaysFallbackAsset(assetColumn) == "BRL"

\* The repository rebuilds the returned Monetary from the account's asset
\* column, falling back to BRL for a symbol the monetary package lacks.
RepoAsset(assetColumn) ==
    IF assetColumn \in KnownAssets THEN assetColumn ELSE "BRL"

CategoryTypes == {CategoryTypeIncome, CategoryTypeExpense}

validateCategory(c) ==
    IF TrimSpace(c.name) = "" THEN "category name cannot be empty"
    ELSE IF c.type = "" THEN "category type cannot be empty"
    ELSE IF c.type \notin CategoryTypes THEN "invalid category type"
    ELSE ""

\* A variant of DefaultColor that passes the colour on as it came;
\* ColourDefaulted does not survive it.
ColorAsGiven(color) == color

\* The colour CreateCategory and UpdateCategory store: the default gray for
\* an empty one.
DefaultColor(color) == IF color = "" THEN "#6B7280" ELSE color

AccountTypes == {AccountTypeChecking, AccountTypeSavings, AccountTypeCredit,
                 AccountTypeInvestment, AccountTypeCash}

\* A variant of validateAccount without the name check;
\* PersistedAccountsValid does not survive it.
validateAccountWithoutName(a) ==
    IF a.type = "" THEN "account type cannot be empty"
    ELSE IF a.type \notin AccountTypes THEN "invalid account type"
    ELSE IF a.asset = "" THEN "account asset cannot be empty"
    ELSE IF a.asset \notin KnownAssets THEN "invalid asset"
    ELSE ""

validateAccount(a) ==
    IF TrimSpace(a.name) = "" THEN "account name cannot be empty"
    ELSE IF a.type = "" THEN "account type cannot be empty"
    ELSE IF a.type \notin AccountTypes THEN "invalid account type"
    ELSE IF a.asset = "" THEN "account asset cannot be empty"
    ELSE IF a.asset \notin KnownAssets THEN "invalid asset"
    ELSE ""


\* ------------------------------------------------------------------ state
\* The categories the schema inserts: an income and an expense category.
DefaultCategories ==
    [c \in DefaultCategoryIds |->
        IF c = 1 THEN [name |-> "Salary", type |-> CategoryTypeIncome,
                       color |-> "#10B981"]
                 ELSE [name |-> "Groceries", type |-> CategoryTypeExpense,
                       color |-> "#EF4444"]]

Init ==
    /\ accounts = Empty
    /\ categories = DefaultCategories
    /\ transactions = Empty
    /\ balances = Empty
    /\ nextAccountId = 1
    /\ nextCategoryId = Cardinality(DefaultCategoryIds) + 1
    /\ nextTransactionId = 1
    /\ pc = [p \in Workers |-> "idle"]
    /\ local = [p \in Workers |-> NoLocal]
    /\ res = NoRes

\* A variant of Return in which the call returns without its error;
\* MissingReferenceRefused does not survive it.
ReturnWithoutError(p, op, err) ==
    /\ pc' = [pc EXCEPT ![p] = "idle"]
    /\ local' = [local EXCEPT ![p] = NoLocal]
    /\ res' = [NoRes EXCEPT !.op = op]

\* The call of worker p returns err to its caller.
Return(p, op, err) ==
    /\ pc' = [pc EXCEPT ![p] = "idle"]
    /\ local' = [local EXCEPT ![p] = NoLocal]
    /\ res' = [NoRes EXCEPT !.op = op, !.err = err]

\* The outcome of a call that succeeds is fixed when its repository call
\* returns: the use case hands ret on unchanged, and the refreshes that
\* follow cannot fail the call (their error is dropped).
Succeeds(op, ret, supplied) ==
    res' = [NoRes EXCEPT !.op = op, !.ret = ret, !.supplied = supplied]

TablesUnchanged ==
    UNCHANGED <<accounts, categories, transactions, balances,
                nextAccountId, nextCategoryId, nextTransactionId>>

\* ------------------------------------------- explicit RefreshAccountBalance
\* The statement starts: its SELECT sees the committed transactions.
RefreshRead(p) ==
    /\ pc[p] = "refresh"
    /\ pc' = [pc EXCEPT ![p] = "refresh_w"]
    /\ local' = [local EXCEPT ![p].sums =
                    SelectAccountSums(transactions, local[p].todo[local[p].k])]
    /\ res' = NoRes
    /\ TablesUnchanged

\* The statement writes the balances row; its error is dropped.  After the
\* last refresh the call returns.
RefreshWrite(p) ==
    /\ pc[p] = "refresh_w"
    /\ balances' = UpsertBalance(balances, accounts,
                                 local[p].todo[local[p].k], local[p].sums)
    /\ IF local[p].k = Len(local[p].todo)
       THEN /\ pc' = [pc EXCEPT ![p] = "idle"]
            /\ local' = [local EXCEPT ![p] = NoLocal]
       ELSE /\ pc' = [pc EXCEPT ![p] = "refresh"]
            /\ local' = [local EXCEPT ![p].k = local[p].k + 1,
                                      ![p].sums = ZeroSums]
    /\ res' = IF local[p].op = "refreshBalance"
              THEN [NoRes EXCEPT
                      !.op = "refreshBalance",
                      !.ret = [NoRet EXCEPT !.account_id =
                                  local[p].todo[local[p].k]]]
              ELSE NoRes
    /\ UNCHANGED <<accounts, categories, transactions, nextAccountId,
                   nextCategoryId, nextTransactionId>>

\* A variant of RefreshError that hands the error of the refresh on to the
\* caller; RefreshFailureSwallowed does not survive it.
PropagatedRefreshError(op, err) == err

\* A variant of RefreshError in which CreateAccount fails when the balance
\* initialisation does; CreateAccountBestEffort does not survive it.
InitialisationFatal(op, err) == IF op = "createAccount" THEN err ELSE ""

\* The error a use case returns when its explicit RefreshAccountBalance
\* call has returned err: none, the transaction use cases assign the error
\* to the blank identifier and CreateAccount only logs it; the balance use
\* case returns it.
RefreshError(op, err) == IF op = "refreshBalance" THEN err ELSE ""

\* The explicit RefreshAccountBalance call fails (the connection is lost,
\* the context is cancelled, the statement is aborted): the balances row
\* stays as it was and the use case goes on.
RefreshFail(p) ==
    /\ pc[p] = "refresh"
    /\ LET err == RefreshError(local[p].op,
                               "failed to refresh account balance")
       IN IF err # ""
          THEN Return(p, local[p].op, err)
          ELSE /\ IF local[p].k = Len(local[p].todo)
                  THEN /\ pc' = [pc EXCEPT ![p] = "idle"]
                       /\ local' = [local EXCEPT ![p] = NoLocal]
                  ELSE /\ pc' = pc
                       /\ local' = [local EXCEPT ![p].k = local[p].k + 1]
               /\ res' = [NoRes EXCEPT
                            !.op = "refreshAccountBalance",
                            !.err = "failed to refresh account balance",
                            !.ret = [NoRet EXCEPT !.account_id =
                                        local[p].todo[local[p].k]]]
    /\ TablesUnchanged

\* ------------------------------------------------------- CreateTransaction
\* Validation, the account and category lookups, the asset substitution and
\* the status default.  A lookup that finds no row fails: the repositories
\* compare the driver's error with sql.ErrNoRows, which pgx does not return,
\* so the use case sees an error and never an empty entity.
CreateBegin(p, t) ==
    /\ pc[p] = "idle"
    /\ LET err == validateTransaction(t)
       IN IF err # ""
          THEN Return(p, "createTransaction", err)
          ELSE IF t.account_id \notin DOMAIN accounts
          THEN Return(p, "createTransaction", "failed to get account")
          ELSE IF t.category_id \notin DOMAIN categories
          THEN Return(p, "createTransaction", "failed to get category")
          ELSE /\ nextTransactionId
                    + Cardinality({q \in Workers : pc[q] = "c_persist"})
                    <= MaxTransactions
               /\ pc' = [pc EXCEPT ![p] = "c_persist"]
               /\ \E today \in Clock :
                    local' = [local EXCEPT ![p] =
                      [NoLocal EXCEPT
                         !.op = "createTransaction",
                         !.tx = [account_id |-> t.account_id,
                                 category_id |-> t.category_id,
                                 amount |-> t.amount,
                                 description |-> t.description,
                                 date |-> IF IsZero(t.date)
                                          THEN Now(today) ELSE t.date,
                                 status |-> IF t.status = ""
                                            THEN TransactionStatusCleared
                                            ELSE t.status],
                         !.asset = convertTransactionToAccountAsset(
                                      t.asset, accounts[t.account_id].asset),
                         !.supplied = t.amount,
                         !.catType = categories[t.category_id].type,
                         !.asked = [status |-> t.status, date |-> t.date]]]
               /\ res' = NoRes
    /\ TablesUnchanged

\* The INSERT statement starts: foreign keys are checked, the row is written
\* and the row trigger's SELECT runs on the statement's view.
CreatePersist(p) ==
    /\ pc[p] = "c_persist"
    /\ LET t == local[p].tx
           id == nextTransactionId
           row == [t EXCEPT !.amount = Int64(t.amount),
                            !.date = PgDate(t.date)]
           tbl == [i \in DOMAIN transactions \cup {id} |->
                      IF i = id THEN row ELSE transactions[i]]
       IN IF \/ t.account_id \notin DOMAIN accounts
             \/ t.category_id \notin DOMAIN categories
             \/ ~StatusCheck(t.status)
          THEN /\ Return(p, "createTransaction", "failed to create transaction")
               /\ UNCHANGED nextTransactionId
          ELSE /\ nextTransactionId' = id + 1
               /\ pc' = [pc EXCEPT ![p] = "c_commit"]
               /\ local' = [local EXCEPT ![p].id = id, ![p].tx = row,
                               ![p].uw = "ins",
                               ![p].sums = SelectAccountSums(tbl, t.account_id)]
               /\ res' = NoRes
    /\ UNCHANGED <<accounts, categories, transactions, balances, nextAccountId,
                   nextCategoryId>>

\* The transaction the repository returns: the written row under its id,
\* with the asset read back from the account.
Returned(id, t) ==
    [id |-> id, account_id |-> t.account_id, category_id |-> t.category_id,
     amount |-> t.amount, asset |-> RepoAsset(accounts[t.account_id].asset),
     date |-> DateTime(t.date), status |-> t.status]

\* The trigger writes the balances row and the statement commits; the
\* repository reads the account's asset and builds the returned transaction.
CreateCommit(p) ==
    /\ pc[p] = "c_commit"
    /\ LET t == local[p].tx
       IN /\ transactions' = View(p)
          /\ balances' = UpsertBalance(balances, accounts, t.account_id,
                                       local[p].sums)
          /\ local' = [local EXCEPT ![p] =
                         [NoLocal EXCEPT !.op = "createTransaction",
                                         !.todo = <<t.account_id>>, !.k = 1]]
          /\ res' = [NoRes EXCEPT !.op = "createTransaction",
                                   !.ret = Returned(local[p].id, t),
                                   !.supplied = local[p].supplied,
                                   !.asked = local[p].asked]
    /\ pc' = [pc EXCEPT ![p] = "refresh"]
    /\ UNCHANGED <<accounts, categories, nextAccountId, nextCategoryId,
                   nextTransactionId>>

\* ------------------------------------------------------- UpdateTransaction
UpdateBegin(p, id, t) ==
    /\ pc[p] = "idle"
    /\ LET err == validateTransaction(t)
       IN IF err # ""
          THEN Return(p, "updateTransaction", err)
          ELSE IF id = NoId
          THEN Return(p, "updateTransaction", "transaction ID cannot be empty")
          ELSE IF id \notin DOMAIN transactions
          THEN Return(p, "updateTransaction",
                      "failed to get existing transaction")
          ELSE IF t.account_id \notin DOMAIN accounts
          THEN Return(p, "updateTransaction", "failed to get account")
          ELSE IF t.category_id \notin DOMAIN categories
          THEN Return(p, "updateTransaction", "failed to get category")
          ELSE /\ pc' = [pc EXCEPT ![p] = "u_persist"]
               /\ local' = [local EXCEPT ![p] =
                    [NoLocal EXCEPT
                       !.op = "updateTransaction",
                       !.id = id,
                       !.tx = [account_id |-> t.account_id,
                               category_id |-> t.category_id,
                               amount |-> adjustTransactionAmount(t.amount,
                                            categories[t.category_id].type),
                               description |-> t.description,
                               date |-> t.date,
                               status |-> t.status],
                       !.asset = convertTransactionToAccountAsset(
                                    t.asset, accounts[t.account_id].asset),
                       !.supplied = t.amount,
                       !.catType = categories[t.category_id].type,
                       !.existing = transactions[id].account_id]]
               /\ res' = NoRes
    /\ TablesUnchanged

\* The UPDATE statement starts once the row is not locked by another open
\* statement: no row, a broken foreign key or the status CHECK make it fail.
UpdatePersist(p) ==
    /\ pc[p] = "u_persist"
    /\ ~RowLocked(p, local[p].id)
    /\ LET t == local[p].tx
           id == local[p].id
           row == [t EXCEPT !.amount = Int64(t.amount),
                            !.date = PgDate(t.date)]
           tbl == [i \in DOMAIN transactions |->
                      IF i = id THEN row ELSE transactions[i]]
       IN IF \/ id \notin DOMAIN transactions
             \/ t.account_id \notin DOMAIN accounts
             \/ t.category_id \notin DOMAIN categories
             \/ ~StatusCheck(t.status)
          THEN Return(p, "updateTransaction", "failed to update transaction")
          ELSE /\ pc' = [pc EXCEPT ![p] = "u_commit"]
               /\ local' = [local EXCEPT ![p].tx = row, ![p].uw = "upd",
                               ![p].old = transactions[id].account_id,
                               ![p].sums = SelectAccountSums(tbl, t.account_id)]
               /\ res' = NoRes
    /\ TablesUnchanged

\* The trigger writes the balances rows (NEW, then OLD when the account
\* changed) and the statement commits.
UpdateCommit(p) ==
    /\ pc[p] = "u_commit"
    /\ LET t == local[p].tx
       IN /\ transactions' = View(p)
          /\ balances' = TriggerOnUpdate(balances, accounts, View(p),
                            t.account_id, local[p].old, local[p].sums)
          /\ local' = [local EXCEPT ![p] =
                [NoLocal EXCEPT
                   !.op = "updateTransaction",
                   !.todo = IF local[p].existing # t.account_id
                            THEN <<t.account_id, local[p].existing>>
                            ELSE <<t.account_id>>,
                   !.k = 1]]
          /\ Succeeds("updateTransaction", Returned(local[p].id, t),
                      local[p].supplied)
    /\ pc' = [pc EXCEPT ![p] = "refresh"]
    /\ UNCHANGED <<accounts, categories, nextAccountId, nextCategoryId,
                   nextTransactionId>>

\* ------------------------------------------------------- DeleteTransaction
DeleteBegin(p, id) ==
    /\ pc[p] = "idle"
    /\ IF id = NoId
       THEN Return(p, "deleteTransaction", "transaction ID cannot be empty")
       ELSE IF id \notin DOMAIN transactions
       THEN Return(p, "deleteTransaction", "failed to get transaction")
       ELSE /\ pc' = [pc EXCEPT ![p] = "d_persist"]
            /\ local' = [local EXCEPT ![p] =
                 [NoLocal EXCEPT !.op = "deleteTransaction", !.id = id,
                                 !.existing = transactions[id].account_id]]
            /\ res' = NoRes
    /\ TablesUnchanged

\* The DELETE statement starts once the row is not locked: a row that is
\* gone by now is no error (no row, no trigger).
DeletePersist(p) ==
    /\ pc[p] = "d_persist"
    /\ ~RowLocked(p, local[p].id)
    /\ LET id == local[p].id
       IN IF id \notin DOMAIN transactions
          THEN /\ pc' = [pc EXCEPT ![p] = "refresh"]
               /\ local' = [local EXCEPT ![p] =
                     [NoLocal EXCEPT !.op = "deleteTransaction",
                                     !.todo = <<local[p].existing>>, !.k = 1]]
               /\ Succeeds("deleteTransaction", NoRet, 0)
          ELSE /\ pc' = [pc EXCEPT ![p] = "d_commit"]
               /\ local' = [local EXCEPT ![p].uw = "del",
                     ![p].old = transactions[id].account_id,
                     ![p].sums = SelectAccountSums(
                        [i \in DOMAIN transactions \ {id} |-> transactions[i]],
                        transactions[id].account_id)]
               /\ res' = NoRes
    /\ TablesUnchanged

\* The trigger writes the balances row of OLD.account_id and the statement
\* commits.
DeleteCommit(p) ==
    /\ pc[p] = "d_commit"
    /\ transactions' = View(p)
    /\ balances' = UpsertBalance(balances, accounts, local[p].old, local[p].sums)
    /\ local' = [local EXCEPT ![p] =
          [NoLocal EXCEPT !.op = "deleteTransaction",
                          !.todo = <<local[p].existing>>, !.k = 1]]
    /\ pc' = [pc EXCEPT ![p] = "refresh"]
    /\ Succeeds("deleteTransaction", NoRet, 0)
    /\ UNCHANGED <<accounts, categories, nextAccountId, nextCategoryId,
                   nextTransactionId>>


\* ---------------------------------------------------------------- accounts
\* A variant of ExistingRow that finds a row under every id;
\* UpdateOfMissingRowRefused does not survive it.
AnyRow(tbl, id) == TRUE

\* The lookup of the existing row in UpdateAccount and UpdateCategory: it
\* fails when the table has no row of that id.
ExistingRow(tbl, id) == id \in DOMAIN tbl

\* The symbols of the accounts.asset CHECK constraint.
CheckedAssets ==
    {"BRL", "USD", "EUR", "GBP", "JPY", "CAD", "AUD", "BTC", "ETH"}

\* The CHECK constraints of the accounts table, on type and on asset.
AccountChecks(a) == a.type \in AccountTypes /\ a.asset \in CheckedAssets

\* CreateAccount: validation, the INSERT, then the balance initialisation.
CreateAccount(p, a) ==
    /\ pc[p] = "idle"
    /\ LET err == validateAccount(a)
       IN IF err # ""
          THEN /\ Return(p, "createAccount", err)
               /\ UNCHANGED <<accounts, nextAccountId>>
          ELSE IF ~AccountChecks(a)
          THEN /\ Return(p, "createAccount", "failed to create account")
               /\ UNCHANGED <<accounts, nextAccountId>>
          ELSE /\ nextAccountId <= MaxAccounts
               /\ accounts' = [x \in DOMAIN accounts \cup {nextAccountId} |->
                                 IF x = nextAccountId
                                 THEN [name |-> a.name, type |-> a.type,
                                       asset |-> a.asset]
                                 ELSE accounts[x]]
               /\ nextAccountId' = nextAccountId + 1
               /\ pc' = [pc EXCEPT ![p] = "refresh"]
               /\ local' = [local EXCEPT ![p] =
                    [NoLocal EXCEPT !.op = "createAccount",
                                    !.todo = <<nextAccountId>>, !.k = 1]]
               /\ Succeeds("createAccount",
                           [NoRet EXCEPT !.account_id = nextAccountId], 0)
    /\ UNCHANGED <<categories, transactions, balances, nextCategoryId,
                   nextTransactionId>>

\* UpdateAccount: validation, the lookup, then the UPDATE.
UpdateAccount(p, id, a) ==
    /\ pc[p] = "idle"
    /\ LET err == validateAccount(a)
       IN IF err # ""
          THEN /\ Return(p, "updateAccount", err)
               /\ UNCHANGED accounts
          ELSE IF id = NoId
          THEN /\ Return(p, "updateAccount", "account ID cannot be empty")
               /\ UNCHANGED accounts
          ELSE IF ~ExistingRow(accounts, id)
          THEN /\ Return(p, "updateAccount", "failed to get existing account")
               /\ UNCHANGED accounts
          ELSE IF ~AccountChecks(a)
          THEN /\ Return(p, "updateAccount", "failed to update account")
               /\ UNCHANGED accounts
          ELSE /\ accounts' = [accounts EXCEPT
                                 ![id] = [name |-> a.name, type |-> a.type,
                                          asset |-> a.asset]]
               /\ Return(p, "updateAccount", "")
    /\ UNCHANGED <<categories, transactions, balances, nextAccountId,
                   nextCategoryId, nextTransactionId>>

\* DeleteAccount: the lookup, then DELETE FROM accounts with its cascades to
\* transactions (which fires the balance trigger) and to balances.
DeleteAccount(p, id) ==
    /\ pc[p] = "idle"
    /\ IF id = NoId
       THEN /\ Return(p, "deleteAccount", "account ID cannot be empty")
            /\ UNCHANGED <<accounts, transactions, balances>>
       ELSE IF id \notin DOMAIN accounts
       THEN /\ Return(p, "deleteAccount", "failed to get account")
            /\ UNCHANGED <<accounts, transactions, balances>>
       ELSE /\ ~AccountInUse(id)
            /\ IF CascadeTriggerOk(Cardinality(DeleteAccountRows(id)),
                                   id \in DOMAIN balances, FALSE)
               THEN /\ accounts' = [x \in DOMAIN accounts \ {id} |-> accounts[x]]
                    /\ transactions' =
                         [i \in DOMAIN transactions \ DeleteAccountRows(id) |->
                             transactions[i]]
                    /\ balances' = [x \in DOMAIN balances \ {id} |-> balances[x]]
                    /\ Return(p, "deleteAccount", "")
               ELSE /\ Return(p, "deleteAccount", "failed to delete account")
                    /\ UNCHANGED <<accounts, transactions, balances>>
    /\ UNCHANGED <<categories, nextAccountId, nextCategoryId,
                   nextTransactionId>>

\* -------------------------------------------------------------- categories
\* A variant of CategoryReferenced for a schema without the restriction;
\* DeleteCategoryRestricted does not survive it.
NeverReferenced(tbl, c) == FALSE

\* transactions.category_id REFERENCES categories(id) ON DELETE RESTRICT.
CategoryReferenced(tbl, c) == \E i \in DOMAIN tbl : tbl[i].category_id = c

\* A variant of UniqueNameType for a schema without the unique index;
\* CategoryPairsUnique does not survive it.
AnyNameType(tbl, id, c) == TRUE

\* idx_categories_name_type, the unique index on (name, type): no row other
\* than row id holds the pair of c.  The strings are compared as they are.
UniqueNameType(tbl, id, c) ==
    \A x \in DOMAIN tbl \ {id} :
        ~(tbl[x].name = c.name /\ tbl[x].type = c.type)

\* CreateCategory: validation, then the INSERT.
CreateCategory(p, c) ==
    /\ pc[p] = "idle"
    /\ LET err == validateCategory(c)
       IN IF err # ""
          THEN /\ Return(p, "createCategory", err)
               /\ UNCHANGED <<categories, nextCategoryId>>
          ELSE IF ~UniqueNameType(categories, NoId, c)
          THEN /\ Return(p, "createCategory", "failed to create category")
               /\ UNCHANGED <<categories, nextCategoryId>>
          ELSE /\ nextCategoryId <= MaxCategories
               /\ categories' =
                    [x \in DOMAIN categories \cup {nextCategoryId} |->
                        IF x = nextCategoryId
                        THEN [name |-> c.name, type |-> c.type,
                              color |-> DefaultColor(c.color)]
                        ELSE categories[x]]
               /\ nextCategoryId' = nextCategoryId + 1
               /\ Return(p, "createCategory", "")
    /\ UNCHANGED <<accounts, transactions, balances, nextAccountId,
                   nextTransactionId>>

\* UpdateCategory: validation, the lookup, then the UPDATE.
UpdateCategory(p, id, c) ==
    /\ pc[p] = "idle"
    /\ LET err == validateCategory(c)
       IN IF err # ""
          THEN /\ Return(p, "updateCategory", err)
               /\ UNCHANGED categories
          ELSE IF id = NoId
          THEN /\ Return(p, "updateCategory", "category ID cannot be empty")
               /\ UNCHANGED categories
          ELSE IF ~ExistingRow(categories, id)
          THEN /\ Return(p, "updateCategory",
                          "failed to get existing category")
               /\ UNCHANGED categories
          ELSE IF ~UniqueNameType(categories, id, c)
          THEN /\ Return(p, "updateCategory", "failed to update category")
               /\ UNCHANGED categories
          ELSE /\ categories' = [categories EXCEPT
                                   ![id] = [name |-> c.name, type |-> c.type,
                                            color |-> DefaultColor(c.color)]]
               /\ Return(p, "updateCategory", "")
    /\ UNCHANGED <<accounts, transactions, balances, nextAccountId,
                   nextCategoryId, nextTransactionId>>

\* DeleteCategory: the lookup, then DELETE FROM categories.
DeleteCategory(p, id) ==
    /\ pc[p] = "idle"
    /\ IF id = NoId
       THEN /\ Return(p, "deleteCategory", "category ID cannot be empty")
            /\ UNCHANGED categories
       ELSE IF id \notin DOMAIN categories
       THEN /\ Return(p, "deleteCategory", "failed to get category")
            /\ UNCHANGED categories
       ELSE /\ ~CategoryInUse(id)
            /\ IF CategoryReferenced(transactions, id)
               THEN /\ Return(p, "deleteCategory", "failed to delete category")
                    /\ UNCHANGED categories
               ELSE /\ categories' =
                         [c \in DOMAIN categories \ {id} |-> categories[c]]
                    /\ Return(p, "deleteCategory", "")
    /\ UNCHANGED <<accounts, transactions, balances, nextAccountId,
                   nextCategoryId, nextTransactionId>>

\* ------------------------------------------------------------ API handlers
\* The Date of the entity the CreateTransaction handler builds from the
\* request's date string: the zero time for the empty string, the parsed
\* day otherwise (a string that does not parse is answered with 400).
RequestDate(s) == IF s # "" THEN DateTime(s) ELSE ZeroTime

\* Text is a sequence of one-character strings; String is the Go string
\* it spells.
RECURSIVE String(_)
String(text) ==
    IF text = <<>> THEN "" ELSE Head(text) \o String(Tail(text))

Digits == <<"0", "1", "2", "3", "4", "5", "6", "7", "8", "9">>

isDigit(c) == \E i \in DOMAIN Digits : Digits[i] = c

\* The number a text of digits spells, -1 for any other text.
RECURSIVE atoi(_)
atoi(text) ==
    IF text = <<>> THEN 0
    ELSE LET c == text[Len(text)]
             rest == atoi(SubSeq(text, 1, Len(text) - 1))
         IN IF isDigit(c) /\ rest >= 0
            THEN 10 * rest + (CHOOSE i \in DOMAIN Digits : Digits[i] = c) - 1
            ELSE -1

isLeap(year) == year % 4 = 0 /\ (year % 100 # 0 \/ year % 400 = 0)

daysIn(month, year) ==
    IF month = 2 THEN (IF isLeap(year) THEN 29 ELSE 28)
    ELSE IF month \in {4, 6, 9, 11} THEN 30
    ELSE 31

\* A variant of TimeParse that takes any text for a day;
\* MalformedDateRejected does not survive it.
ParseAnyText(value) == [err |-> "", t |-> DateTime(String(value))]

\* time.Parse("2006-01-02", value): four digits of year, "-", two digits of
\* month, "-", two digits of day and nothing after them, the month within
\* 1..12 and the day within the month.  A text that parses is the text
\* Format("2006-01-02") gives back.
TimeParse(value) ==
    LET bad == [err |-> "parsing time", t |-> ZeroTime]
        year == atoi(SubSeq(value, 1, 4))
        month == atoi(SubSeq(value, 6, 7))
        day == atoi(SubSeq(value, 9, 10))
    IN IF Len(value) < 4 \/ year < 0 THEN bad
       ELSE IF Len(value) < 5 \/ value[5] # "-" THEN bad
       ELSE IF Len(value) < 7 \/ month < 0 THEN bad
       ELSE IF month < 1 \/ month > 12 THEN bad
       ELSE IF Len(value) < 8 \/ value[8] # "-" THEN bad
       ELSE IF Len(value) < 10 \/ day < 0 THEN bad
       ELSE IF Len(value) > 10 THEN bad
       ELSE IF day < 1 \/ day > daysIn(month, year) THEN bad
       ELSE [err |-> "", t |-> DateTime(String(value))]

\* A variant of Decode that takes any JSON value for the amount, a string
\* counting as 1; UnparseableAmountRejected does not survive it.
DecodeAnyAmount(body) ==
    [err |-> "",
     amount |-> IF body.amount.kind = "number" THEN body.amount.n ELSE 1]

\* json.Decode into the request struct: the amount field is a float64, so
\* any JSON value but a number fails the decoding.
Decode(body) ==
    IF body.amount.kind = "number"
    THEN [err |-> "", amount |-> body.amount.n]
    ELSE [err |-> "json: cannot unmarshal", amount |-> 0]

\* errorResponse: a call that changes nothing and answers with err.
ErrorResponse(p, op, err) ==
    /\ pc[p] = "idle"
    /\ Return(p, op, err)
    /\ TablesUnchanged

\* The entity the transaction handlers build from a decoded request.
RequestEntity(body, amount, date) ==
    [account_id |-> body.account_id, category_id |-> body.category_id,
     amount |-> amount, asset |-> "USD", description |-> body.description,
     date |-> date, status |-> body.status]

\* The CreateTransaction handler: the body decoded, the date parsed when it
\* is not empty, then the use case.
ApiCreateTransaction(p, body) ==
    LET req == Decode(body)
        parsed == TimeParse(body.date)
    IN IF req.err # ""
       THEN ErrorResponse(p, "apiCreateTransaction", req.err)
       ELSE IF body.date # <<>> /\ parsed.err # ""
       THEN ErrorResponse(p, "apiCreateTransaction",
                          "invalid parameter date")
       ELSE CreateBegin(p, RequestEntity(body, req.amount,
                              IF body.date # <<>> THEN parsed.t
                              ELSE ZeroTime))

\* The UpdateTransaction handler: the id of the URL, the body decoded, the
\* date parsed when it is not empty, then the use case.
ApiUpdateTransaction(p, id, body) ==
    LET req == Decode(body)
        parsed == TimeParse(body.date)
    IN IF id = NoId
       THEN ErrorResponse(p, "apiUpdateTransaction",
                          "missing required parameter: id")
       ELSE IF req.err # ""
       THEN ErrorResponse(p, "apiUpdateTransaction", req.err)
       ELSE IF body.date # <<>> /\ parsed.err # ""
       THEN ErrorResponse(p, "apiUpdateTransaction",
                          "invalid parameter date")
       ELSE UpdateBegin(p, id, RequestEntity(body, req.amount,
                                  IF body.date # <<>> THEN parsed.t
                                  ELSE ZeroTime))

\* The rows of GetTransactionsWithDetails: every transaction joined with
\* its account and its category (LIMIT 50 is above MaxTransactions).  The
\* order of the rows is not modelled.
GetTransactionsWithDetailsQuery ==
    {[id |-> i, account_id |-> transactions[i].account_id,
      category_id |-> transactions[i].category_id,
      amount |-> transactions[i].amount,
      date |-> transactions[i].date,
      status |-> transactions[i].status,
      account_asset |-> accounts[transactions[i].account_id].asset] :
        i \in {j \in DOMAIN transactions :
                 /\ transactions[j].account_id \in DOMAIN accounts
                 /\ transactions[j].category_id \in DOMAIN categories}}

\* A variant of Responses that builds the slice by appending to a nil one,
\* which stays nil when there is no row; EmptyListIsOk does not survive it.
ResponsesAppended(rows) == [nil |-> rows = {}, items |-> rows]

\* make([]TransactionResponse, len(transactions)) filled in: a slice that
\* is never nil, of one response per row.
Responses(rows) == [nil |-> FALSE, items |-> rows]

\* render.JSON of a slice: null for a nil slice, an array otherwise.
RenderJSON(slice) ==
    IF slice.nil THEN [kind |-> "null", items |-> {}]
    ELSE [kind |-> "array", items |-> slice.items]

\* The status the GetAllTransactions handler answers with: 500 for an error
\* of the use case, 200 otherwise.
ListStatus(err) == IF err # "" THEN 500 ELSE 200

\* The GetAllTransactions handler: the use case, whose query fails or
\* not, then the responses rendered.
GetAllTransactions(p) ==
    /\ pc[p] = "idle"
    /\ \E failed \in BOOLEAN :
          IF failed
          THEN res' = [NoRes EXCEPT
                         !.op = "getAllTransactions",
                         !.err = "failed to get transactions with details"]
          ELSE res' = [NoRes EXCEPT
                         !.op = "getAllTransactions",
                         !.ret = RenderJSON(Responses(
                                     GetTransactionsWithDetailsQuery))]
    /\ UNCHANGED <<pc, local>>
    /\ TablesUnchanged

\* The status the CreateTransaction handler answers with: 400 for an error
\* of its own or of the use case, 201 otherwise.
CreateStatus(err) == IF err # "" THEN 400 ELSE 201

\* The status the UpdateTransaction handler answers with.
UpdateStatus(err) == IF err # "" THEN 400 ELSE 200

\* A variant of DeleteStatus that answers every delete with 204;
\* DeleteOfMissingRowFails does not survive it.
AlwaysNoContent(err) == 204

\* The status the DeleteAccount, DeleteCategory and DeleteTransaction
\* handlers answer with: 400 for an error of the use case, 204 otherwise.
DeleteStatus(err) == IF err # "" THEN 400 ELSE 204

\* ---------------------------------------------------------------- balances
\* The error of the pgx driver for a query that finds no row, and the
\* error the repositories compare it with.
PgxErrNoRows == "no rows in result set"

SqlErrNoRows == "sql: no rows in result set"

\* BalanceRepository.GetBalanceByAccountID: the row of the account; for no
\* row, the empty entity when the driver's error is sql.ErrNoRows and the
\* error otherwise.
RepoGetBalanceByAccountID(bal, id) ==
    IF id \in DOMAIN bal
    THEN [err |-> "", account_id |-> id, current |-> bal[id].current,
          pending |-> bal[id].pending, available |-> bal[id].available]
    ELSE [err |-> IF PgxErrNoRows = SqlErrNoRows THEN "" ELSE PgxErrNoRows,
          account_id |-> NoId, current |-> 0, pending |-> 0, available |-> 0]

\* BalanceUseCase.GetBalanceByAccountID: the account lookup, the balance
\* read, and for an empty balance entity a refresh (which fails or not)
\* and a second read.
GetBalanceByAccountID(p, id) ==
    /\ pc[p] = "idle"
    /\ LET b == RepoGetBalanceByAccountID(balances, id)
           refreshed == UpsertBalance(balances, accounts, id,
                                      SelectAccountSums(transactions, id))
           again == RepoGetBalanceByAccountID(refreshed, id)
           Fails(err) == /\ Return(p, "getBalanceByAccountID", err)
                         /\ UNCHANGED balances
       IN IF id = NoId THEN Fails("account ID cannot be empty")
          ELSE IF id \notin DOMAIN accounts THEN Fails("failed to get account")
          ELSE IF b.err # "" THEN Fails("failed to get balance")
          ELSE IF b.account_id # NoId
          THEN /\ res' = [NoRes EXCEPT !.op = "getBalanceByAccountID",
                                       !.ret = b]
               /\ UNCHANGED <<pc, local, balances>>
          ELSE \E failed \in BOOLEAN :
                  IF failed
                  THEN Fails("failed to refresh account balance")
                  ELSE /\ balances' = refreshed
                       /\ IF again.err # ""
                          THEN Return(p, "getBalanceByAccountID",
                                      "failed to get balance after refresh")
                          ELSE /\ res' = [NoRes EXCEPT
                                            !.op = "getBalanceByAccountID",
                                            !.ret = again]
                               /\ UNCHANGED <<pc, local>>
    /\ UNCHANGED <<accounts, categories, transactions, nextAccountId,
                   nextCategoryId, nextTransactionId>>

\* GetBalanceSummary: the query, then the three columns converted.  The
\* columns are SUMs over BIGINT, all three of one SQL type, so the driver
\* hands all three over as the same Go type; which one is the driver's
\* choice.
GetBalanceSummary(p) ==
    /\ pc[p] = "idle"
    /\ \E isInt64 \in BOOLEAN :
          LET result == GetBalanceSummaryQuery(accounts, balances)
          IN res' = [NoRes EXCEPT
                       !.op = "getBalanceSummary",
                       !.ret = [total_assets |->
                                   AssertInt64(result.total_assets, isInt64),
                                total_liabilities |->
                                   AssertInt64(result.total_liabilities,
                                               isInt64),
                                net_worth |->
                                   AssertInt64(result.net_worth, isInt64)]]
    /\ UNCHANGED <<pc, local>>
    /\ TablesUnchanged

\* ------------------------------------------------------------ specification
\* The (category, amount, status) combinations requests are made with: both
\* category types with both signs, and every status including the unset one.
RequestShapes ==
    {[category_id |-> 1, amount |-> 1, status |-> ""],
     [category_id |-> 1, amount |-> -2, status |-> TransactionStatusPending],
     [category_id |-> 2, amount |-> 1, status |-> TransactionStatusCancelled],
     [category_id |-> 2, amount |-> -2, status |-> TransactionStatusCleared]}

\* The request of shape s on account a; it names its amount in USD and
\* its date.
Request(a, s) ==
    [account_id |-> a, category_id |-> s.category_id, amount |-> s.amount,
     asset |-> "USD", description |-> "rent",
     date |-> RequestDate("2024-03-09"), status |-> s.status]

\* Requests that pass validateTransaction.
ValidTransactionInputs ==
    {Request(a, s) : a \in AccountIds, s \in RequestShapes}

BaseInput == Request(1, [category_id |-> 1, amount |-> 1, status |-> ""])

\* Requests that break one rule of validateTransaction each.
InvalidTransactionInputs ==
    {[BaseInput EXCEPT !.account_id = NoId],
     [BaseInput EXCEPT !.category_id = NoId],
     [BaseInput EXCEPT !.amount = 0],
     [BaseInput EXCEPT !.description = ""],
     [BaseInput EXCEPT !.description = " "],
     [BaseInput EXCEPT !.status = "settled"]}

TransactionInputs == ValidTransactionInputs \cup InvalidTransactionInputs

\* The account named n of type t in asset s.
AccountInput(n, t, s) == [name |-> n, type |-> t, asset |-> s]

\* Checking accounts in every asset input.
AccountInputs ==
    {AccountInput("main", AccountTypeChecking, s) : s \in AccountAssetInputs}

\* One request at a time, over the whole API.
Handlers == {"w1"}

Next ==
    \/ \E p \in Handlers, a \in AccountInputs : CreateAccount(p, a)
    \/ \E p \in Handlers, id \in AccountIdInputs : DeleteAccount(p, id)
    \/ \E p \in Handlers, id \in CategoryIdInputs : DeleteCategory(p, id)
    \/ \E p \in Handlers, t \in TransactionInputs : CreateBegin(p, t)
    \/ \E p \in Handlers : CreatePersist(p)
    \/ \E p \in Handlers : CreateCommit(p)
    \/ \E p \in Handlers, id \in TransactionIdInputs, t \in TransactionInputs :
          UpdateBegin(p, id, t)
    \/ \E p \in Handlers : UpdatePersist(p)
    \/ \E p \in Handlers : UpdateCommit(p)
    \/ \E p \in Handlers, id \in TransactionIdInputs : DeleteBegin(p, id)
    \/ \E p \in Handlers : DeletePersist(p)
    \/ \E p \in Handlers : DeleteCommit(p)
    \/ \E p \in Handlers : RefreshRead(p)
    \/ \E p \in Handlers : RefreshWrite(p)

Spec == Init /\ [][Next]_vars

\* Requests that overlap: every worker handles transaction requests on the
\* accounts some request has created.  Account 1 takes requests of every
\* status; the other accounts take the ones that leave the status unset or
\* ask for pending.
ConcurrentShapes ==
    {[category_id |-> 1, amount |-> 1, status |-> ""],
     [category_id |-> 1, amount |-> 2, status |-> TransactionStatusPending],
     [category_id |-> 1, amount |-> 1, status |-> TransactionStatusCancelled]}

ConcurrentInputs ==
    {r \in {Request(a, s) : a \in AccountIds, s \in ConcurrentShapes} :
        r.account_id = 1 \/ r.status # TransactionStatusCancelled}

\* The CreateAccount call that creates account a has not returned yet: no
\* client has been given the id of a.
Creating(a) ==
    \E q \in Workers : local[q].op = "createAccount" /\ local[q].todo = <<a>>

\* The handlers of requests that overlap.
FirstRun == {"w1", "w2"}

NextConcurrent ==
    \/ \E p \in FirstRun :
          CreateAccount(p, AccountInput("main", AccountTypeChecking, "BRL"))
    \/ \E p \in FirstRun, t \in ConcurrentInputs :
          ~Creating(t.account_id) /\ CreateBegin(p, t)
    \/ \E p \in FirstRun : CreatePersist(p)
    \/ \E p \in FirstRun : CreateCommit(p)
    \/ \E p \in FirstRun, id \in TransactionIds, t \in ConcurrentInputs :
          ~Creating(t.account_id) /\ UpdateBegin(p, id, t)
    \/ \E p \in FirstRun : UpdatePersist(p)
    \/ \E p \in FirstRun : UpdateCommit(p)
    \/ \E p \in FirstRun, id \in TransactionIds : DeleteBegin(p, id)
    \/ \E p \in FirstRun : DeletePersist(p)
    \/ \E p \in FirstRun : DeleteCommit(p)
    \/ \E p \in FirstRun : RefreshRead(p)
    \/ \E p \in FirstRun : RefreshWrite(p)

ConcurrentSpec == Init /\ [][NextConcurrent]_vars

\* Date strings of create requests: none, the first day of the calendar, and
\* a day before the ones of Clock.
DateInputs == {"", "0001-01-01", "2024-03-09"}

StatusInputs == {""} \cup ValidStatuses

\* Create requests of every status and date input.
DatedInputs ==
    {[Request(a, [category_id |-> 1, amount |-> 1, status |-> st])
         EXCEPT !.date = RequestDate(d)] :
        a \in AccountIds, st \in StatusInputs, d \in DateInputs}

DatedNext ==
    \/ \E p \in Handlers :
          CreateAccount(p, AccountInput("main", AccountTypeChecking, "BRL"))
    \/ \E p \in Handlers, t \in DatedInputs : CreateBegin(p, t)
    \/ \E p \in Handlers : CreatePersist(p)
    \/ \E p \in Handlers : CreateCommit(p)
    \/ \E p \in Handlers : RefreshRead(p)
    \/ \E p \in Handlers : RefreshWrite(p)

DatedSpec == Init /\ [][DatedNext]_vars

\* Date texts of requests that time.Parse takes: the leap day of a leap
\* year, a day before the ones of Clock.
WellFormedDates ==
    {<<"2", "0", "2", "4", "-", "0", "2", "-", "2", "9">>}

\* Date texts that time.Parse refuses: the leap day of a common year, a
\* wrong separator, the US order, month 13, digits missing, a digit too
\* many, and no date at all.
MalformedDates ==
    {<<"2", "0", "2", "3", "-", "0", "2", "-", "2", "9">>,
     <<"2", "0", "2", "4", "/", "0", "3", "/", "0", "9">>,
     <<"0", "1", "/", "1", "5", "/", "2", "0", "2", "4">>,
     <<"2", "0", "2", "4", "-", "1", "3", "-", "0", "1">>,
     <<"2", "0", "2", "4", "-", "3", "-", "9">>,
     <<"2", "0", "2", "4", "-", "0", "3", "-", "0", "9", "1">>,
     <<"i", "n", "v", "a", "l", "i", "d", "-", "d", "a", "t", "e">>}

\* The JSON values amounts of requests are given as: a number and a string.
AmountValues ==
    {[kind |-> "number", n |-> 1], [kind |-> "string", n |-> 0]}

\* Request bodies of the transaction handlers, on account 1 and category 1.
ApiBodies ==
    [account_id : {1}, category_id : {1}, amount : AmountValues,
     description : {"rent"},
     date : {<<>>} \cup WellFormedDates \cup MalformedDates,
     status : {"", TransactionStatusPending}]

\* The transactions API as the handlers serve it, one request at a time.
ApiNext ==
    \/ \E p \in Handlers :
          CreateAccount(p, AccountInput("main", AccountTypeChecking, "BRL"))
    \/ \E p \in Handlers, body \in ApiBodies : ApiCreateTransaction(p, body)
    \/ \E p \in Handlers : CreatePersist(p)
    \/ \E p \in Handlers : CreateCommit(p)
    \/ \E p \in Handlers, id \in TransactionIdInputs, body \in ApiBodies :
          ApiUpdateTransaction(p, id, body)
    \/ \E p \in Handlers : GetAllTransactions(p)
    \/ \E p \in Handlers : UpdatePersist(p)
    \/ \E p \in Handlers : UpdateCommit(p)
    \/ \E p \in Handlers : RefreshRead(p)
    \/ \E p \in Handlers : RefreshWrite(p)

ApiSpec == Init /\ [][ApiNext]_vars

\* The account and the category that update requests carry.
UpdateAccountInputs == {AccountInput("spare", AccountTypeSavings, "USD")}

UpdateCategoryInputs ==
    {[name |-> "Rent", type |-> CategoryTypeExpense, color |-> ""]}

\* Creates, updates and deletes of accounts, categories and transactions,
\* one request at a time.
UpdateNext ==
    \/ \E p \in Handlers :
          CreateAccount(p, AccountInput("main", AccountTypeChecking, "BRL"))
    \/ \E p \in Handlers, id \in AccountIdInputs, a \in UpdateAccountInputs :
          UpdateAccount(p, id, a)
    \/ \E p \in Handlers, id \in AccountIdInputs : DeleteAccount(p, id)
    \/ \E p \in Handlers, id \in CategoryIdInputs,
          c \in UpdateCategoryInputs : UpdateCategory(p, id, c)
    \/ \E p \in Handlers, id \in CategoryIdInputs : DeleteCategory(p, id)
    \/ \E p \in Handlers, t \in ValidTransactionInputs : CreateBegin(p, t)
    \/ \E p \in Handlers : CreatePersist(p)
    \/ \E p \in Handlers : CreateCommit(p)
    \/ \E p \in Handlers, id \in TransactionIdInputs,
          t \in ValidTransactionInputs : UpdateBegin(p, id, t)
    \/ \E p \in Handlers : UpdatePersist(p)
    \/ \E p \in Handlers : UpdateCommit(p)
    \/ \E p \in Handlers, id \in TransactionIdInputs : DeleteBegin(p, id)
    \/ \E p \in Handlers : DeletePersist(p)
    \/ \E p \in Handlers : DeleteCommit(p)
    \/ \E p \in Handlers : RefreshRead(p)
    \/ \E p \in Handlers : RefreshWrite(p)

UpdateSpec == Init /\ [][UpdateNext]_vars

\* Account inputs: names blank or not, types empty, valid or unknown, and
\* every asset input.
AllAccountInputs ==
    [name : {"", " ", "main", "spare"},
     type : {"", AccountTypeChecking, AccountTypeCredit, "loan"},
     asset : AccountAssetInputs]

\* The accounts API, one request at a time.
AccountNext ==
    \/ \E p \in Handlers, a \in AllAccountInputs : CreateAccount(p, a)
    \/ \E p \in Handlers, id \in AccountIdInputs, a \in AllAccountInputs :
          UpdateAccount(p, id, a)
    \/ \E p \in Handlers, id \in AccountIdInputs : DeleteAccount(p, id)
    \/ \E p \in Handlers : RefreshRead(p)
    \/ \E p \in Handlers : RefreshWrite(p)

AccountSpec == Init /\ [][AccountNext]_vars

\* Category inputs: names that are blank, taken by a default category or
\* new, with every type input.
CategoryInputs ==
    [name : {"", " ", "Salary", "Groceries", "Rent"},
     type : {"", CategoryTypeIncome, CategoryTypeExpense, "transfer"},
     color : {""}]

\* Category inputs with a colour or none: names blank or not, types empty,
\* valid or unknown.
ColorInputs ==
    [name : {" ", "Rent", "Fuel"},
     type : {"", CategoryTypeExpense, "transfer"},
     color : {"", "#FF0000"}]

\* The categories API with colours, one request at a time.
ColorNext ==
    \/ \E p \in Handlers, c \in ColorInputs : CreateCategory(p, c)
    \/ \E p \in Handlers, id \in CategoryIdInputs, c \in ColorInputs :
          UpdateCategory(p, id, c)
    \/ \E p \in Handlers, id \in CategoryIdInputs : DeleteCategory(p, id)

ColorSpec == Init /\ [][ColorNext]_vars

\* The categories API, one request at a time.
CategoryNext ==
    \/ \E p \in Handlers, c \in CategoryInputs : CreateCategory(p, c)
    \/ \E p \in Handlers, id \in CategoryIdInputs, c \in CategoryInputs :
          UpdateCategory(p, id, c)
    \/ \E p \in Handlers, id \in CategoryIdInputs : DeleteCategory(p, id)

CategorySpec == Init /\ [][CategoryNext]_vars

\* The handlers of the process started after the crash.
Restarted == {"w3"}

\* The service process has died.
Crashed == \A q \in FirstRun : pc[q] = "crashed"

\* The accounts among todo[k], .. that worker q has yet to refresh.
Unrefreshed(q) ==
    IF pc[q] \in {"refresh", "refresh_w"} /\ local[q].op \in TransactionOps
    THEN SubSeq(local[q].todo, local[q].k, Len(local[q].todo))
    ELSE <<>>

\* The process dies after a transaction use case has persisted its row and
\* before its explicit refreshes are through.  Every handler of the process
\* is gone with it (what is kept of a handler is the accounts it had yet to
\* refresh); a statement that is open is rolled back by the database.
Crash ==
    /\ \E p \in FirstRun : Unrefreshed(p) # <<>>
    /\ pc' = [q \in Workers |-> IF q \in FirstRun THEN "crashed" ELSE pc[q]]
    /\ local' = [q \in Workers |->
                    IF q \in FirstRun
                    THEN [NoLocal EXCEPT !.todo = Unrefreshed(q)]
                    ELSE local[q]]
    /\ res' = NoRes
    /\ TablesUnchanged

\* Overlapping requests, a crash, and then the requests the restarted
\* process handles one at a time.
CrashNext ==
    \/ NextConcurrent
    \/ Crash
    \/ /\ Crashed
       /\ \/ \E p \in Restarted, t \in ConcurrentInputs : CreateBegin(p, t)
          \/ \E p \in Restarted : CreatePersist(p)
          \/ \E p \in Restarted : CreateCommit(p)
          \/ \E p \in Restarted, id \in TransactionIds,
                t \in ConcurrentInputs : UpdateBegin(p, id, t)
          \/ \E p \in Restarted : UpdatePersist(p)
          \/ \E p \in Restarted : UpdateCommit(p)
          \/ \E p \in Restarted, id \in TransactionIds : DeleteBegin(p, id)
          \/ \E p \in Restarted : DeletePersist(p)
          \/ \E p \in Restarted : DeleteCommit(p)
          \/ \E p \in Restarted : RefreshRead(p)
          \/ \E p \in Restarted : RefreshWrite(p)

CrashSpec == Init /\ [][CrashNext]_vars

\* One request at a time, with explicit refreshes that may fail.
FaultNext ==
    \/ \E p \in Handlers, a \in AccountInputs : CreateAccount(p, a)
    \/ \E p \in Handlers, t \in ValidTransactionInputs : CreateBegin(p, t)
    \/ \E p \in Handlers : CreatePersist(p)
    \/ \E p \in Handlers : CreateCommit(p)
    \/ \E p \in Handlers, id \in TransactionIds,
          t \in ValidTransactionInputs : UpdateBegin(p, id, t)
    \/ \E p \in Handlers : UpdatePersist(p)
    \/ \E p \in Handlers : UpdateCommit(p)
    \/ \E p \in Handlers, id \in TransactionIds : DeleteBegin(p, id)
    \/ \E p \in Handlers : DeletePersist(p)
    \/ \E p \in Handlers : DeleteCommit(p)
    \/ \E p \in Handlers : RefreshRead(p)
    \/ \E p \in Handlers : RefreshWrite(p)
    \/ \E p \in Handlers : RefreshFail(p)

FaultSpec == Init /\ [][FaultNext]_vars

\* The API with refreshes that fail, and the balance of an account read.
BalanceNext ==
    \/ FaultNext
    \/ \E p \in Handlers, id \in AccountIdInputs :
          GetBalanceByAccountID(p, id)

BalanceSpec == Init /\ [][BalanceNext]_vars

\* BalanceUseCase.RefreshAccountBalance: an empty id and an account that is
\* not found are refused; otherwise the balances row of the account is
\* recomputed by update_account_balance and nil is returned.
RefreshAccountBalance(p, id) ==
    /\ pc[p] = "idle"
    /\ IF id = NoId
       THEN Return(p, "refreshBalance", "account ID cannot be empty")
       ELSE IF id \notin DOMAIN accounts
       THEN Return(p, "refreshBalance", "failed to get account")
       ELSE /\ pc' = [pc EXCEPT ![p] = "refresh"]
            /\ local' = [local EXCEPT ![p] =
                  [NoLocal EXCEPT !.op = "refreshBalance",
                                  !.todo = <<id>>, !.k = 1]]
            /\ res' = NoRes
    /\ TablesUnchanged

\* The whole API called by one client, and the balance of an account
\* refreshed on request.
FrameNext ==
    \/ Next
    \/ \E p \in Handlers, id \in AccountIdInputs :
          RefreshAccountBalance(p, id)

FrameSpec == Init /\ [][FrameNext]_vars

\* Balances a row can hold in the summary runs.
SummaryBalances == {-2, 0, 3}

\* The summary over any accounts and balances rows: every account type, a
\* balances row or none per account, currents of either sign.
SummaryInit ==
    /\ \E ids \in SUBSET AccountIds :
          /\ accounts \in [ids -> {AccountInput("main", t, "BRL") :
                                      t \in AccountTypes}]
          /\ \E held \in SUBSET ids :
                balances \in [held -> {[current |-> c, pending |-> 0,
                                        available |-> c] :
                                          c \in SummaryBalances}]
    /\ categories = DefaultCategories
    /\ transactions = Empty
    /\ nextAccountId = MaxAccounts + 1
    /\ nextCategoryId = Cardinality(DefaultCategoryIds) + 1
    /\ nextTransactionId = MaxTransactions + 1
    /\ pc = [p \in Workers |-> "idle"]
    /\ local = [p \in Workers |-> NoLocal]
    /\ res = NoRes

SummaryNext == \E p \in Handlers : GetBalanceSummary(p)

SummarySpec == SummaryInit /\ [][SummaryNext]_vars


\* ------------------------------------------------------------------ claims
\* No request is in flight.
Quiescent == \A p \in Workers : pc[p] = "idle"

\* The sum of the amounts of the rows of account a that have status st.
Total(tbl, a, st) ==
    SumAmounts(tbl, {i \in DOMAIN tbl :
                        tbl[i].account_id = a /\ tbl[i].status = st})

\* The balances row of account a, if there is one, agrees with table tbl:
\* current is the cleared total and pending the pending total, so cancelled
\* rows are in neither.
Exact(bal, tbl, a) ==
    a \in DOMAIN bal =>
        /\ bal[a].current = Total(tbl, a, TransactionStatusCleared)
        /\ bal[a].pending = Total(tbl, a, TransactionStatusPending)

\* The step is the return of worker p's call while no other call is open.
ReturnsLast(p) ==
    /\ pc[p] = "refresh_w"
    /\ pc'[p] = "idle"
    /\ \A q \in Workers \ {p} : pc[q] = "idle"

\* C1: whenever no request is in flight, every balances row has current
\* equal to the sum of its account's cleared transactions and pending equal
\* to the sum of its pending ones, cancelled ones counting in neither.
BalancesExactWhenQuiescent ==
    Quiescent => \A a \in DOMAIN balances : Exact(balances, transactions, a)

\* C2: when the last of several overlapping transaction requests returns,
\* the balances row of each account it refreshed equals the aggregates of
\* the committed transactions: no interleaving leaves an older value behind.
ConcurrentRequestsEndExact ==
    [][\A p \in Workers :
          (ReturnsLast(p) /\ local[p].op \in TransactionOps) =>
              \A i \in 1 .. Len(local[p].todo) :
                  Exact(balances', transactions', local[p].todo[i])]_vars

\* Every transactions row and every balances row belongs to an account.
NoDanglingRows ==
    /\ \A i \in DOMAIN transactions :
          transactions[i].account_id \in DOMAIN accounts
    /\ DOMAIN balances \subseteq DOMAIN accounts

\* C3: DeleteAccount on an existing account succeeds and leaves no
\* transactions row and no balances row of that account; and in every state
\* every transactions row and every balances row belongs to an existing
\* account.
DeleteAccountRemovesEverything ==
    [][/\ NoDanglingRows'
       /\ \A p \in Workers, id \in AccountIds :
             (id \in DOMAIN accounts /\ DeleteAccount(p, id)) =>
                 /\ res'.err = ""
                 /\ id \notin DOMAIN accounts'
                 /\ id \notin DOMAIN balances'
                 /\ \A i \in DOMAIN transactions' :
                       transactions'[i].account_id # id]_vars

\* C4: DeleteCategory on a category some transaction refers to returns an
\* error and leaves the categories and the transactions as they were;
\* on an existing category no transaction refers to, it removes the category.
DeleteCategoryRestricted ==
    [][\A p \in Handlers, id \in CategoryIds :
          (id \in DOMAIN categories /\ DeleteCategory(p, id)) =>
              IF \E i \in DOMAIN transactions :
                    transactions[i].category_id = id
              THEN /\ res'.err # ""
                   /\ categories' = categories
                   /\ transactions' = transactions
              ELSE /\ res'.err = ""
                   /\ DOMAIN categories' = DOMAIN categories \ {id}]_vars

\* A referenced category has just been refused while the other category,
\* unreferenced, has been removed before.
DeleteCategoryBothWays ==
    /\ res.op = "deleteCategory"
    /\ res.err = "failed to delete category"
    /\ Cardinality(DOMAIN categories) = 1
    /\ \E i \in DOMAIN transactions :
          transactions[i].category_id \in DOMAIN categories

CreateExpenseIsNegative ==
    [][(/\ res'.op = "createTransaction"
        /\ res'.err = ""
        /\ res'.supplied > 0
        /\ categories'[res'.ret.category_id].type = CategoryTypeExpense) =>
          transactions'[res'.ret.id].amount < 0]_vars

MoveLeavesBothExact ==
    [][\A p \in Workers :
          (/\ ReturnsLast(p)
           /\ local[p].op = "updateTransaction"
           /\ Len(local[p].todo) = 2) =>
              /\ Exact(balances', transactions', local[p].todo[1])
              /\ Exact(balances', transactions', local[p].todo[2])]_vars

\* C10: in every state, stale balances included, every balances row has
\* available = current + pending.
AvailableIsCurrentPlusPending ==
    \A a \in DOMAIN balances :
        balances[a].available = balances[a].current + balances[a].pending

\* No request is in flight and a balances row with a cleared and a pending
\* part is stale.
StaleBalanceAtRest ==
    /\ Quiescent
    /\ \E a \in DOMAIN balances :
          /\ balances[a].current # 0
          /\ balances[a].pending # 0
          /\ ~Exact(balances, transactions, a)

\* C11: for any accounts and balances rows, the summary GetBalanceSummary
\* returns has net worth = total assets - total liabilities.
NetWorthIsAssetsMinusLiabilities ==
    res.op = "getBalanceSummary" =>
        res.ret.net_worth = res.ret.total_assets - res.ret.total_liabilities

\* A summary over an asset account and a credit account has just been
\* returned with assets 3, liabilities 2 and net worth 1.
SummaryWithLiabilities ==
    /\ res.op = "getBalanceSummary"
    /\ res.ret.total_assets = 3
    /\ res.ret.total_liabilities = 2
    /\ res.ret.net_worth = 1
    /\ \E a \in DOMAIN balances :
          accounts[a].type = AccountTypeCredit /\ balances[a].current = -2

\* The step returns an error, which the delete handlers answer with a 4xx
\* status, and changes no table.
DeleteRefused ==
    /\ res'.err # ""
    /\ DeleteStatus(res'.err) \in 400 .. 499
    /\ UNCHANGED <<accounts, categories, transactions, balances>>

\* C12: DeleteAccount, DeleteCategory and DeleteTransaction called with an
\* ID for which no row exists return an error, which the handlers answer
\* with a 4xx status and never with 204, and leave every table unchanged.
DeleteOfMissingRowFails ==
    [][\A p \in Handlers :
          /\ \A id \in AccountIds :
                (id \notin DOMAIN accounts /\ DeleteAccount(p, id))
                    => DeleteRefused
          /\ \A id \in CategoryIds :
                (id \notin DOMAIN categories /\ DeleteCategory(p, id))
                    => DeleteRefused
          /\ \A id \in TransactionIds :
                (id \notin DOMAIN transactions /\ DeleteBegin(p, id))
                    => DeleteRefused]_vars

\* A DeleteTransaction of a transaction that has been deleted before has
\* just been refused, while an account and a category are gone as well.
DeleteOfDeletedRefused ==
    /\ res.op = "deleteTransaction"
    /\ res.err = "failed to get transaction"
    /\ nextTransactionId > 1
    /\ transactions = Empty
    /\ nextAccountId > Cardinality(DOMAIN accounts) + 1
    /\ Cardinality(DOMAIN categories) < Cardinality(CategoryIds)

\* C13: CreateTransaction persists status cleared when the caller leaves the
\* status unset and the current day as date when the request's date string
\* is empty; a status or a date the caller supplies is persisted as
\* supplied.
CreateDefaultsStatusAndDate ==
    [][(res'.op = "createTransaction" /\ res'.err = "") =>
          LET row == transactions'[res'.ret.id]
              asked == res'.asked
          IN /\ row.status = IF asked.status = ""
                              THEN TransactionStatusCleared
                              ELSE asked.status
             /\ \A d \in DateInputs :
                   RequestDate(d) = asked.date =>
                       IF d = "" THEN row.date \in Clock
                                 ELSE row.date = d]_vars

\* C14: when the explicit RefreshAccountBalance call fails after the
\* transaction row was created, updated or deleted, the transaction use
\* case reports no error (it goes on to its next refresh or returns) and
\* the mutation stays persisted.
RefreshFailureSwallowed ==
    [][\A p \in Handlers :
          (RefreshFail(p) /\ local[p].op \in TransactionOps) =>
              /\ res'.op \notin TransactionOps
              /\ pc'[p] \in {"refresh", "idle"}
              /\ pc'[p] = "idle" <=> local[p].k = Len(local[p].todo)
              /\ UNCHANGED <<accounts, categories, transactions>>]_vars

\* The refresh after a transaction mutation has just failed, the call is
\* over and a transaction of the account is persisted.
ReturnedAfterFailedRefresh ==
    /\ res.op = "refreshAccountBalance"
    /\ res.err # ""
    /\ Quiescent
    /\ \E i \in DOMAIN transactions :
          transactions[i].account_id = res.ret.account_id

\* C15: CreateAccount with valid input persists the account and returns it
\* without error, also when the balance initialisation fails; when the
\* initialisation succeeds, the new account has a balances row with
\* current = pending = available = 0.
CreateAccountBestEffort ==
    [][\A p \in Handlers :
          /\ \A a \in AccountInputs :
                (validateAccount(a) = "" /\ CreateAccount(p, a)) =>
                    /\ res'.err = ""
                    /\ res'.ret.account_id \in DOMAIN accounts' \ DOMAIN accounts
                    /\ accounts'[res'.ret.account_id] = a
          /\ (RefreshFail(p) /\ local[p].op = "createAccount") =>
                    /\ res'.op # "createAccount"
                    /\ pc'[p] = "idle"
                    /\ accounts' = accounts
                    /\ local[p].todo[1] \in DOMAIN accounts'
          /\ (RefreshWrite(p) /\ local[p].op = "createAccount") =>
                    /\ local[p].todo[1] \in DOMAIN balances'
                    /\ balances'[local[p].todo[1]] = ZeroSums]_vars

\* The initialisation of an account's balance has just failed: the account
\* exists without a balances row, next to an account whose initialisation
\* succeeded.
AccountWithoutBalanceRow ==
    /\ res.op = "refreshAccountBalance"
    /\ res.err # ""
    /\ Quiescent
    /\ res.ret.account_id \in DOMAIN accounts \ DOMAIN balances
    /\ \E b \in DOMAIN balances : balances[b] = ZeroSums

DoubleRefreshChangesNothing ==
    [][\A p \in Handlers :
          (RefreshWrite(p) /\ local[p].op \in TransactionOps) =>
              LET a == local[p].todo[local[p].k]
              IN /\ BalanceFkOk(accounts, a)
                 /\ a \in DOMAIN balances
                 /\ balances'[a] = balances[a]
                 /\ balances'[a] = SelectAccountSums(transactions, a)]_vars

\* An update that moved a transaction is between its two explicit
\* refreshes: the account it refreshed first has been refreshed by the
\* trigger and again by the use case, and its row, with current and pending
\* not zero, equals the aggregates.
RefreshedTwice ==
    \E p \in Handlers :
        /\ pc[p] = "refresh"
        /\ local[p].k = 2
        /\ LET a == local[p].todo[1]
           IN /\ a \in DOMAIN balances
              /\ balances[a].current # 0
              /\ balances[a].pending # 0
              /\ balances[a] = SelectAccountSums(transactions, a)

\* C18: CreateTransaction and UpdateTransaction given an AccountID or a
\* CategoryID that names no row return an error, persist or modify no
\* transactions row and change no balance.  (In the formula: a step that is
\* not such a refusal is no step of a CreateTransaction or UpdateTransaction
\* call whose account or category is missing.)
MissingReferenceRefused ==
    [][\A p \in Handlers :
          (pc[p] = "idle" /\ ~(res'.err # "" /\ pc'[p] = "idle"
                                /\ UNCHANGED <<transactions, balances>>)) =>
              \A t \in ValidTransactionInputs :
                  (\/ t.account_id \notin DOMAIN accounts
                   \/ t.category_id \notin DOMAIN categories) =>
                      /\ ~CreateBegin(p, t)
                      /\ \A id \in TransactionIdInputs :
                            ~UpdateBegin(p, id, t)]_vars

\* An update of an existing transaction has just been refused because its
\* category is gone, and a create because its account does not exist, while
\* a balance is not zero.
MissingCategoryRefused ==
    /\ res.op = "updateTransaction"
    /\ res.err = "failed to get category"
    /\ transactions # Empty
    /\ \E a \in DOMAIN balances : balances[a].available # 0

\* Some row of tbl other than row id holds the (name, type) pair of c.
PairTaken(tbl, id, c) ==
    \E x \in DOMAIN tbl \ {id} :
        tbl[x].name = c.name /\ tbl[x].type = c.type

\* C19: no two categories rows have the same (name, type) pair, and a
\* CreateCategory or UpdateCategory that would produce a second row with a
\* pair fails and leaves the categories unchanged.  The second part is
\* stated contrapositively: a step that is not a refusal leaving the
\* categories alone is no such create or update.
CategoryPairsUnique ==
    [][/\ \A x, y \in DOMAIN categories' :
             (/\ categories'[x].name = categories'[y].name
              /\ categories'[x].type = categories'[y].type) => x = y
       /\ ~(res'.err # "" /\ categories' = categories) =>
             \A p \in Handlers, c \in CategoryInputs :
                 /\ PairTaken(categories, NoId, c) => ~CreateCategory(p, c)
                 /\ \A id \in DOMAIN categories :
                        PairTaken(categories, id, c) =>
                            ~UpdateCategory(p, id, c)]_vars

\* An update has just been refused by the unique index, while a category
\* has been created and two categories share a name under different types.
DuplicatePairRefused ==
    /\ res.op = "updateCategory"
    /\ res.err = "failed to update category"
    /\ nextCategoryId > Cardinality(DefaultCategoryIds) + 1
    /\ \E x, y \in DOMAIN categories :
          /\ categories[x].name = categories[y].name
          /\ categories[x].type # categories[y].type

\* An account input that breaks a rule of the accounts: a blank name, a
\* type outside the five account types, or an asset that is not recognised.
ViolatingAccount(a) ==
    \/ a.name \in {"", " "}
    \/ a.type \notin {"checking", "savings", "credit", "investment", "cash"}
    \/ a.asset \notin KnownAssets

\* C20: every persisted account has a non-blank name, one of the five
\* account types and a recognised asset, and a CreateAccount or
\* UpdateAccount whose input breaks one of these returns an error and
\* writes nothing.  The second part is stated contrapositively: a step
\* that is not a refusal leaving the tables alone is no such call.
PersistedAccountsValid ==
    [][/\ \A x \in DOMAIN accounts' : ~ViolatingAccount(accounts'[x])
       /\ ~(res'.err # "" /\ accounts' = accounts /\ balances' = balances
                          /\ transactions' = transactions) =>
             \A p \in Handlers, a \in AllAccountInputs :
                 ViolatingAccount(a) =>
                     /\ ~CreateAccount(p, a)
                     /\ \A id \in AccountIdInputs :
                            ~UpdateAccount(p, id, a)]_vars

\* An update with an unknown type has just been refused, after an earlier
\* update gave an account another name, type and asset.
InvalidUpdateRefused ==
    /\ res.op = "updateAccount"
    /\ res.err = "invalid account type"
    /\ \E x \in DOMAIN accounts :
          /\ accounts[x].name = "spare"
          /\ accounts[x].type = AccountTypeCredit
          /\ accounts[x].asset = "USD"
          /\ x \in DOMAIN balances

\* The step answers p's request with 400 and an error message without
\* invoking a transaction use case, and changes nothing.
RefusedByHandler(p) ==
    /\ res'.err # ""
    /\ CreateStatus(res'.err) = 400 /\ UpdateStatus(res'.err) = 400
    /\ res'.op \notin TransactionOps
    /\ pc'[p] = "idle"
    /\ UNCHANGED <<accounts, categories, transactions, balances>>

\* C21: a create or update request whose date is not empty and not in
\* YYYY-MM-DD form is answered with 400 and a non-empty error message, the
\* use case is not invoked and nothing changes.  Stated contrapositively:
\* a step of an idle handler that is not such an answer serves no request
\* with such a date.
MalformedDateRejected ==
    [][\A p \in Handlers :
          (pc[p] = "idle" /\ ~RefusedByHandler(p)) =>
             \A body \in ApiBodies :
                body.date \in MalformedDates =>
                   /\ ~ApiCreateTransaction(p, body)
                   /\ \A id \in TransactionIdInputs :
                         ~ApiUpdateTransaction(p, id, body)]_vars

\* An update has just been answered by the handler itself, while a
\* transaction dated by a well-formed request is stored.
DateRefusedByHandler ==
    /\ res.op = "apiUpdateTransaction"
    /\ res.err = "invalid parameter date"
    /\ \E i \in DOMAIN transactions : transactions[i].date = "2024-02-29"

\* C22: a create or update request whose amount cannot be parsed is
\* answered with 400 before any use case is invoked, and nothing
\* changes.  Stated contrapositively, as MalformedDateRejected is.
UnparseableAmountRejected ==
    [][\A p \in Handlers :
          (pc[p] = "idle" /\ ~RefusedByHandler(p)) =>
             \A body \in ApiBodies :
                body.amount.kind # "number" =>
                   /\ ~ApiCreateTransaction(p, body)
                   /\ \A id \in TransactionIdInputs :
                         ~ApiUpdateTransaction(p, id, body)]_vars

\* A request has just been refused for its amount, while a transaction
\* created by a request with a number is stored.
AmountRefusedByHandler ==
    /\ res.op \in {"apiCreateTransaction", "apiUpdateTransaction"}
    /\ res.err = "json: cannot unmarshal"
    /\ DOMAIN transactions # {}

\* C23: GetAllTransactions answers 200 with an empty array, not an error,
\* when no transaction exists and the use case does not fail, and answers
\* 500 exactly when the use case fails; it changes nothing.
EmptyListIsOk ==
    [][\A p \in Handlers :
          GetAllTransactions(p) =>
             /\ (ListStatus(res'.err) = 500) <=> (res'.err # "")
             /\ res'.err = "" =>
                   /\ ListStatus(res'.err) = 200
                   /\ res'.ret.kind = "array"
                   /\ Cardinality(res'.ret.items)
                         = Cardinality(DOMAIN transactions)
                   /\ DOMAIN transactions = {} => res'.ret.items = {}
             /\ UNCHANGED <<accounts, categories, transactions,
                            balances>>]_vars

\* The list has just been answered with an empty array, after an account
\* was created and while no transaction exists.
EmptyListAnswered ==
    /\ res.op = "getAllTransactions"
    /\ res.err = ""
    /\ res.ret = [kind |-> "array", items |-> {}]
    /\ DOMAIN accounts # {}
    /\ DOMAIN transactions = {}

\* C24: an update with an empty date, which reaches the use case as the
\* zero time and the UPDATE statement as the day of the zero time,
\* preserves the date of the transaction: the date stored after the update
\* is the date stored before it.
UpdateWithEmptyDateKeepsDate ==
    [][\A p \in Handlers :
          (UpdateCommit(p) /\ local[p].tx.date = PgDate(ZeroTime)) =>
             transactions'[local[p].id].date
                = transactions[local[p].id].date]_vars

\* C25: every persisted transaction has a status among pending, cleared
\* and cancelled; a CreateTransaction or UpdateTransaction with another
\* non-empty status returns an error and writes nothing (contrapositively:
\* a step of an idle handler that is no such refusal serves no such
\* request); and an update that leaves the status unset stores nothing.
StatusesValid ==
    [][/\ \A i \in DOMAIN transactions' :
             transactions'[i].status \in {"pending", "cleared", "cancelled"}
       /\ \A p \in Handlers :
             /\ (pc[p] = "idle" /\ ~(/\ res'.err # "" /\ pc'[p] = "idle"
                                     /\ UNCHANGED <<transactions, balances>>))
                   => \A t \in TransactionInputs :
                         t.status \notin {"", "pending", "cleared", "cancelled"}
                            => /\ ~CreateBegin(p, t)
                               /\ \A id \in TransactionIdInputs :
                                     ~UpdateBegin(p, id, t)
             /\ (UpdatePersist(p) /\ local[p].tx.status = "") =>
                   /\ res'.err # "" /\ pc'[p] = "idle"
                   /\ UNCHANGED <<transactions, balances>>]_vars

\* An update that left the status unset has just failed, and the
\* transaction it named keeps the status it was created with.
UnsetStatusUpdateFailed ==
    /\ res.op = "updateTransaction"
    /\ res.err = "failed to update transaction"
    /\ \E i \in DOMAIN transactions :
          transactions[i].status = TransactionStatusPending

\* C26: UpdateAccount, UpdateCategory and UpdateTransaction called with an
\* id that no row has return an error, create no row and modify no row
\* and no balance.  Stated contrapositively: a step of an idle handler
\* that is not a refusal leaving every table alone is no such update.
UpdateOfMissingRowRefused ==
    [][\A p \in Handlers :
          (pc[p] = "idle" /\ ~(/\ res'.err # "" /\ pc'[p] = "idle"
                               /\ UNCHANGED <<accounts, categories,
                                              transactions, balances>>)) =>
             /\ \A id \in AccountIds \ DOMAIN accounts,
                   a \in UpdateAccountInputs : ~UpdateAccount(p, id, a)
             /\ \A id \in CategoryIds \ DOMAIN categories,
                   c \in UpdateCategoryInputs : ~UpdateCategory(p, id, c)
             /\ \A id \in TransactionIds \ DOMAIN transactions,
                   t \in ValidTransactionInputs :
                      ~UpdateBegin(p, id, t)]_vars

\* An update of a category that was deleted has just been refused, while
\* an account and a transaction exist.
UpdateOfDeletedRefused ==
    /\ res.op = "updateCategory"
    /\ res.err = "failed to get existing category"
    /\ DOMAIN categories # DefaultCategoryIds
    /\ DOMAIN accounts # {}
    /\ DOMAIN transactions # {}

\* The accounts of the given types that have a balances row.
HeldAccounts(types) ==
    {a \in DOMAIN accounts \cap DOMAIN balances : accounts[a].type \in types}

\* The magnitude of a current balance.
Magnitude(n) == IF n < 0 THEN 0 - n ELSE n

Stores(p, id, c) ==
    \/ id = nextCategoryId /\ CreateCategory(p, c)
    \/ id \in DOMAIN categories /\ UpdateCategory(p, id, c)

\* C28: CreateCategory and UpdateCategory store the colour #6B7280 for an
\* empty colour and the caller's colour unchanged otherwise, and both
\* refuse a blank name or a type outside income and expense without
\* writing anything.
ColourDefaulted ==
    [][\A p \in Handlers, c \in ColorInputs, id \in CategoryIds :
          Stores(p, id, c) =>
             IF c.name \in {"", " "} \/ c.type \notin {"income", "expense"}
             THEN res'.err # "" /\ categories' = categories
             ELSE res'.err = "" =>
                     /\ id \in DOMAIN categories'
                     /\ categories'[id].color
                           = (IF c.color = "" THEN "#6B7280" ELSE c.color)
                     /\ categories'[id].name = c.name
                     /\ categories'[id].type = c.type]_vars

\* A category made with a colour of its own has been updated without one
\* and holds the default gray, next to one that keeps its own colour.
GrayAfterUpdate ==
    /\ res.op = "updateCategory"
    /\ res.err = ""
    /\ \E x, y \in DOMAIN categories \ DefaultCategoryIds :
          /\ categories[x].color = "#6B7280"
          /\ categories[y].color = "#FF0000"

\* C29: GetBalanceByAccountID for an account that exists and has no
\* balances row runs a refresh and returns the balance (it fails only when
\* the refresh or the read after it does), after which the row exists with
\* the sums of the account's transactions; for an account that does not
\* exist it returns an error and makes no balances row.
GetBalanceMakesMissingRow ==
    [][\A p \in Handlers, id \in AccountIds :
          GetBalanceByAccountID(p, id) =>
             IF id \notin DOMAIN accounts
             THEN res'.err # "" /\ balances' = balances
             ELSE id \notin DOMAIN balances =>
                     /\ res'.err \in {"", "failed to refresh account balance",
                                      "failed to get balance after refresh"}
                     /\ res'.err = "" =>
                           /\ id \in DOMAIN balances'
                           /\ balances'[id]
                                 = SelectAccountSums(transactions, id)
                           /\ res'.ret.account_id = id]_vars

\* The operations C30 is about.
FrameOps == TransactionOps \cup {"refreshBalance"}

\* The accounts the call in flight of p is about: the account of the
\* transaction made, the old and the new account of the one updated, the
\* account of the one deleted, the account being refreshed.
Touched(p) ==
    CASE pc[p] \in {"c_persist", "c_commit"} -> {local[p].tx.account_id}
      [] pc[p] \in {"u_persist", "u_commit"} ->
            {local[p].tx.account_id, local[p].existing, local[p].old}
      [] pc[p] \in {"d_persist", "d_commit"} ->
            {local[p].existing, local[p].old}
      [] pc[p] \in {"refresh", "refresh_w"} ->
            {local[p].todo[i] : i \in 1..Len(local[p].todo)}
      [] OTHER -> {}

====
